---- MODULE Spec2Model ----
(***************************************************************************)
(* Model of sunpy.data.data_manager.cache.Cache: a cache of remote files   *)
(* keyed by URL, with time based expiry and download with mirror fallback. *)
(*                                                                         *)
(* The Cache composes a Downloader, a Storage Provider and a cache         *)
(* directory.  The state below is the Storage Provider's records, the      *)
(* files of the cache directory, the clock, the configuration fixed by     *)
(* the constructor, and a record of the most recent call (its inputs, the  *)
(* state it started from, the collaborator operations it performed in      *)
(* order, and how it ended).  Where callers run concurrently, callers      *)
(* holds each caller's position inside Cache.download and its locals.      *)
(***************************************************************************)
EXTENDS Integers, Sequences, FiniteSets, TLC

VARIABLES storage, files, now, expiry, storeMode, last, callers

vars == <<storage, files, now, expiry, storeMode, last, callers>>

(***************************************************************************)
(* Bounds of the model.                                                    *)
(***************************************************************************)
MaxTime == 2
MaxFiles == 2
MaxUrls == 3

(***************************************************************************)
(* Inputs.                                                                 *)
(***************************************************************************)
Hashes == {"hf", "hg"}

\* expiry is <<>> for None and <<d>> for TimeDelta(d)
Expiries == {<<>>, <<1>>}

StoreModes == {"last_write_wins", "duplicate_key_fault"}

\* how the attempt on one candidate URL ends inside _download_and_hash
\* "fetch_fail": urlopen or the Downloader raises, nothing is at the path;
\* "hash_fail": the Downloader wrote the file and hash_file raises
Outcomes == {"ok", "fetch_fail", "hash_fail"}

Range(s) == {s[i] : i \in 1..Len(s)}

Min(S) == CHOOSE x \in S : \A y \in S : x <= y

\* the URLs of one resource, in priority order
Mirrors == <<"http://m1/f", "http://m1/g", "http://m2/f">>

RECURSIVE SubLists(_)
SubLists(s) ==
  IF s = <<>> THEN {<<>>}
  ELSE LET rest == SubLists(Tail(s))
       IN  rest \cup {<<Head(s)>> \o r : r \in rest}

\* the url lists a caller passes: the first n mirrors in priority order, some
\* left out
UrlLists(n) == {s \in SubLists(SubSeq(Mirrors, 1, n)) : Len(s) \in 1..MaxUrls}

NoPath == <<"", 0>>

Ev(ev, url, path, res) == [ev |-> ev, url |-> url, path |-> path, res |-> res]

Result(kind, path, entry) == [kind |-> kind, path |-> path, entry |-> entry]

(***************************************************************************)
(* Storage Provider: store, find_by_key, delete_by_key.                    *)
(***************************************************************************)
FindByKey(s, key, val) ==
  LET idx == {i \in 1..Len(s) : s[i][key] = val}
  IN  IF idx = {} THEN <<>> ELSE <<s[Min(idx)]>>

DeleteByKey(s, key, val) == SelectSeq(s, LAMBDA e : e[key] # val)

\* variant: a provider that appends and does not look at the url
StoreAppends(s, e, mode) == [ok |-> TRUE, storage |-> Append(s, e)]

Store(s, e, mode) ==
  IF FindByKey(s, "url", e.url) = <<>>
  THEN [ok |-> TRUE, storage |-> Append(s, e)]
  ELSE IF mode = "last_write_wins"
       THEN [ok |-> TRUE, storage |-> Append(DeleteByKey(s, "url", e.url), e)]
       ELSE [ok |-> FALSE, storage |-> s]

(***************************************************************************)
(* Filesystem helpers: get_filename, replacement_filename.                 *)
(***************************************************************************)
FileName(url) == IF url = "http://m1/g" THEN "g" ELSE "f"

\* hash_file of the bytes a URL serves
HashFile(url) == IF url = "http://m1/g" THEN "hg" ELSE "hf"

ReplacementFilename(name, fs) ==
  <<name, Min({k \in 0..Cardinality(fs) : <<name, k>> \notin fs})>>

(***************************************************************************)
(* Cache._get_by_url and the lookup loop of Cache.download.                *)
(***************************************************************************)
GetByUrl(s, url) == FindByKey(s, "url", url)

\* variant: only the candidate at position i is looked up, the rest of the
\* list is never consulted
LookupFirstOnly(s, urls, i) ==
  LET d == GetByUrl(s, urls[i])
  IN  IF Len(d) > 0
      THEN [details |-> d,
            log |-> <<Ev("find", urls[i], d[1].file_path, "hit")>>]
      ELSE [details |-> <<>>,
            log |-> <<Ev("find", urls[i], NoPath, "miss")>>]

RECURSIVE LookupFrom(_, _, _)
LookupFrom(s, urls, i) ==
  IF i > Len(urls)
  THEN [details |-> <<>>, log |-> <<>>]
  ELSE LET d == GetByUrl(s, urls[i])
       IN  IF Len(d) > 0
           THEN [details |-> d,
                 log |-> <<Ev("find", urls[i], d[1].file_path, "hit")>>]
           ELSE LET r == LookupFrom(s, urls, i + 1)
                IN  [details |-> r.details,
                     log |-> <<Ev("find", urls[i], NoPath, "miss")>> \o r.log]

\* variant: an entry as old as the expiry is already stale
IsStaleAtExpiry(exp, t, entryTime) == Len(exp) > 0 /\ t - entryTime >= exp[1]

\* variant: expiry None is not told apart from a zero expiry
IsStaleNoneAsZero(exp, t, entryTime) ==
  t - entryTime > (IF Len(exp) > 0 THEN exp[1] ELSE 0)

IsStale(exp, t, entryTime) == Len(exp) > 0 /\ t - entryTime > exp[1]

(***************************************************************************)
(* Cache._download_and_hash.                                               *)
(***************************************************************************)
\* variant: the triple returned names the first candidate, not the one that
\* succeeded
RECURSIVE DownloadFromNamesFirst(_, _, _, _)
DownloadFromNamesFirst(fs, urls, outcome, i) ==
  IF i > Len(urls)
  THEN [ok |-> FALSE, path |-> NoPath, hash |-> "", url |-> "",
        files |-> fs, log |-> <<>>]
  ELSE LET url == urls[i]
           o == outcome[url]
           path == ReplacementFilename(FileName(url), fs)
       IN  IF o = "ok"
           THEN [ok |-> TRUE, path |-> path, hash |-> HashFile(url),
                 url |-> urls[1], files |-> fs \cup {path},
                 log |-> <<Ev("fetch", url, path, "ok")>>]
           ELSE LET fs1 == IF o = "hash_fail" THEN fs \cup {path} ELSE fs
                    r == DownloadFromNamesFirst(fs1, urls, outcome, i + 1)
                IN  [r EXCEPT !.log = <<Ev("fetch", url, path, o)>> \o r.log]

\* variant: the loop has no else branch and falls through to the last path
RECURSIVE DownloadFromNoRaise(_, _, _, _)
DownloadFromNoRaise(fs, urls, outcome, i) ==
  LET url == urls[i]
      o == outcome[url]
      path == ReplacementFilename(FileName(url), fs)
  IN  IF o = "ok" \/ i = Len(urls)
      THEN [ok |-> TRUE, path |-> path, hash |-> HashFile(url), url |-> url,
            files |-> IF o = "fetch_fail" THEN fs ELSE fs \cup {path},
            log |-> <<Ev("fetch", url, path, o)>>]
      ELSE LET fs1 == IF o = "hash_fail" THEN fs \cup {path} ELSE fs
               r == DownloadFromNoRaise(fs1, urls, outcome, i + 1)
           IN  [r EXCEPT !.log = <<Ev("fetch", url, path, o)>> \o r.log]

\* variant: the first candidate that fails ends the loop, the candidates
\* after it are never tried
DownloadFromStopsAtFault(fs, urls, outcome, i) ==
  LET url == urls[i]
      o == outcome[url]
      path == ReplacementFilename(FileName(url), fs)
  IN  IF o = "ok"
      THEN [ok |-> TRUE, path |-> path, hash |-> HashFile(url), url |-> url,
            files |-> fs \cup {path},
            log |-> <<Ev("fetch", url, path, "ok")>>]
      ELSE [ok |-> FALSE, path |-> NoPath, hash |-> "", url |-> "",
            files |-> IF o = "hash_fail" THEN fs \cup {path} ELSE fs,
            log |-> <<Ev("fetch", url, path, o)>>]

RECURSIVE DownloadFrom(_, _, _, _)
DownloadFrom(fs, urls, outcome, i) ==
  IF i > Len(urls)
  THEN [ok |-> FALSE, path |-> NoPath, hash |-> "", url |-> "",
        files |-> fs, log |-> <<>>]
  ELSE LET url == urls[i]
           o == outcome[url]
           path == ReplacementFilename(FileName(url), fs)
       IN  IF o = "ok"
           THEN [ok |-> TRUE, path |-> path, hash |-> HashFile(url), url |-> url,
                 files |-> fs \cup {path},
                 log |-> <<Ev("fetch", url, path, "ok")>>]
           ELSE LET fs1 == IF o = "hash_fail" THEN fs \cup {path} ELSE fs
                    r == DownloadFrom(fs1, urls, outcome, i + 1)
                IN  [r EXCEPT !.log = <<Ev("fetch", url, path, o)>> \o r.log]

DownloadAndHash(fs, urls, outcome) == DownloadFrom(fs, urls, outcome, 1)

(***************************************************************************)
(* Cache.download.                                                         *)
(***************************************************************************)
\* variant: the entry is deleted and the file is left in the cache directory
EvictEntryOnly(s, fs, d, fault) ==
  IF fault = "delete"
  THEN [fault |-> "delete_fault", storage |-> s, files |-> fs,
        log |-> <<Ev("delete", d.url, d.file_path, "fault")>>]
  ELSE [fault |-> "", storage |-> DeleteByKey(s, "url", d.url), files |-> fs,
        log |-> <<Ev("delete", d.url, d.file_path, "ok")>>]

\* variant: a fault of os.remove or of delete_by_key is swallowed and the
\* call goes on to the download
EvictSwallows(s, fs, d, fault) ==
  IF fault = "remove" \/ d.file_path \notin fs
  THEN [fault |-> "", storage |-> s, files |-> fs,
        log |-> <<Ev("remove", d.url, d.file_path, "fault")>>]
  ELSE IF fault = "delete"
       THEN [fault |-> "", storage |-> s,
             files |-> fs \ {d.file_path},
             log |-> <<Ev("remove", d.url, d.file_path, "ok"),
                       Ev("delete", d.url, d.file_path, "fault")>>]
       ELSE [fault |-> "", storage |-> DeleteByKey(s, "url", d.url),
             files |-> fs \ {d.file_path},
             log |-> <<Ev("remove", d.url, d.file_path, "ok"),
                       Ev("delete", d.url, d.file_path, "ok")>>]

\* variant: the file is removed and the entry is left in storage
EvictFileOnly(s, fs, d, fault) ==
  IF fault = "remove" \/ d.file_path \notin fs
  THEN [fault |-> "remove_fault", storage |-> s, files |-> fs,
        log |-> <<Ev("remove", d.url, d.file_path, "fault")>>]
  ELSE [fault |-> "", storage |-> s, files |-> fs \ {d.file_path},
        log |-> <<Ev("remove", d.url, d.file_path, "ok"),
                  Ev("delete", d.url, d.file_path, "ok")>>]

\* variant: os.remove of a file that is not there is not an error
EvictMissingOk(s, fs, d, fault) ==
  IF fault = "remove"
  THEN [fault |-> "remove_fault", storage |-> s, files |-> fs,
        log |-> <<Ev("remove", d.url, d.file_path, "fault")>>]
  ELSE IF fault = "delete"
       THEN [fault |-> "delete_fault", storage |-> s,
             files |-> fs \ {d.file_path},
             log |-> <<Ev("remove", d.url, d.file_path, "ok"),
                       Ev("delete", d.url, d.file_path, "fault")>>]
       ELSE [fault |-> "", storage |-> DeleteByKey(s, "url", d.url),
             files |-> fs \ {d.file_path},
             log |-> <<Ev("remove", d.url, d.file_path, "ok"),
                       Ev("delete", d.url, d.file_path, "ok")>>]

\* expiry eviction: os.remove(details['file_path']), then
\* self._storage.delete_by_key('url', details['url'])
Evict(s, fs, d, fault) ==
  IF fault = "remove" \/ d.file_path \notin fs
  THEN [fault |-> "remove_fault", storage |-> s, files |-> fs,
        log |-> <<Ev("remove", d.url, d.file_path, "fault")>>]
  ELSE IF fault = "delete"
       THEN [fault |-> "delete_fault", storage |-> s,
             files |-> fs \ {d.file_path},
             log |-> <<Ev("remove", d.url, d.file_path, "ok"),
                       Ev("delete", d.url, d.file_path, "fault")>>]
       ELSE [fault |-> "", storage |-> DeleteByKey(s, "url", d.url),
             files |-> fs \ {d.file_path},
             log |-> <<Ev("remove", d.url, d.file_path, "ok"),
                       Ev("delete", d.url, d.file_path, "ok")>>]

\* "if not redownload:" before the lookup and before the store
UsesCache(redownload) == ~redownload

\* variant: the entry is stored whether or not a refresh was forced
StoresEntryAlways(redownload) == TRUE

StoresEntry(redownload) == ~redownload

NewEntry(file_hash, file_path, url, t) ==
  [file_hash |-> file_hash, file_path |-> file_path, url |-> url, time |-> t]

\* the download, the store unless redownload, and the return
FetchAndStore(s, fs, t, mode, urls, redownload, outcome, log) ==
  LET dl == DownloadAndHash(fs, urls, outcome)
  IN  IF ~dl.ok
      THEN [storage |-> s, files |-> dl.files,
            result |-> Result("exhausted", NoPath, <<>>),
            log |-> log \o dl.log]
      ELSE IF ~StoresEntry(redownload)
           THEN [storage |-> s, files |-> dl.files,
                 result |-> Result("path", dl.path, <<>>),
                 log |-> log \o dl.log]
           ELSE LET st == Store(s, NewEntry(dl.hash, dl.path, dl.url, t), mode)
                IN  IF st.ok
                    THEN [storage |-> st.storage, files |-> dl.files,
                          result |-> Result("path", dl.path, <<>>),
                          log |-> log \o dl.log
                                    \o <<Ev("store", dl.url, dl.path, "ok")>>]
                    ELSE [storage |-> s, files |-> dl.files,
                          result |-> Result("store_fault", NoPath, <<>>),
                          log |-> log \o dl.log
                                    \o <<Ev("store", dl.url, dl.path, "fault")>>]

CacheDownload(s, fs, t, exp, mode, urls, redownload, outcome, fault) ==
  IF ~UsesCache(redownload)
  THEN FetchAndStore(s, fs, t, mode, urls, redownload, outcome, <<>>)
  ELSE LET lk == LookupFrom(s, urls, 1)
       IN  IF Len(lk.details) = 0
           THEN FetchAndStore(s, fs, t, mode, urls, redownload, outcome,
                              lk.log)
           ELSE LET d == lk.details[1]
                IN  IF IsStale(exp, t, d.time)
                    THEN LET ev == Evict(s, fs, d, fault)
                         IN  IF ev.fault # ""
                             THEN [storage |-> ev.storage, files |-> ev.files,
                                   result |-> Result(ev.fault, NoPath, <<>>),
                                   log |-> lk.log \o ev.log]
                             ELSE FetchAndStore(ev.storage, ev.files, t, mode,
                                                urls, redownload, outcome,
                                                lk.log \o ev.log)
                    ELSE [storage |-> s, files |-> fs,
                          result |-> Result("path", d.file_path, <<>>),
                          log |-> lk.log]

(***************************************************************************)
(* Cache.get_by_hash.                                                      *)
(***************************************************************************)
\* variant: the lookup is keyed by url
GetByHashKeyedByUrl(s, sha_hash) == FindByKey(s, "url", sha_hash)

GetByHash(s, sha_hash) == FindByKey(s, "file_hash", sha_hash)

(***************************************************************************)
(* The state machine.                                                      *)
(***************************************************************************)
Call(op, urls, redownload, h, result, log) ==
  [op |-> op, urls |-> urls, redownload |-> redownload, hash |-> h,
   result |-> result, log |-> log, at |-> now,
   storage0 |-> storage, files0 |-> files]

\* the callers that share one cache directory and one Storage Provider
Callers == {"a", "b"}

\* a caller outside Cache.download
Idle ==
  [pc |-> "idle", urls |-> <<>>, redownload |-> FALSE, details |-> <<>>,
   i |-> 0, path |-> NoPath, url |-> "", exists |-> FALSE]

\* Cache.__init__ with an empty Storage Provider and an empty cache directory
Init ==
  /\ callers = [c \in Callers |-> Idle]
  /\ storage = <<>>
  /\ files = {}
  /\ now = 0
  /\ expiry \in Expiries
  /\ storeMode \in StoreModes
  /\ last = Call("init", <<>>, FALSE, "", Result("none", NoPath, <<>>), <<>>)

\* one call of Cache.download; the eviction fault is an input of the calls that
\* look the cache up
DownloadOf(lists, redownloads, faults) ==
  \E urls \in lists, redownload \in redownloads :
    \E fault \in (IF redownload THEN {"none"} ELSE faults),
       outcome \in [Range(urls) -> Outcomes] :
      \E r \in {CacheDownload(storage, files, now, expiry, storeMode, urls,
                               redownload, outcome, fault)} :
        /\ Cardinality(r.files) <= MaxFiles
        /\ storage' = r.storage
        /\ files' = r.files
        /\ last' = Call("download", urls, redownload, "", r.result, r.log)
        /\ UNCHANGED <<now, expiry, storeMode, callers>>

Download == DownloadOf(UrlLists(2), BOOLEAN, {"none", "remove", "delete"})

HashLookup ==
  \E h \in Hashes :
    LET d == GetByHash(storage, h)
    IN  /\ last' = Call("get_by_hash", <<>>, FALSE, h,
                        Result(IF Len(d) > 0 THEN "entry" ELSE "none",
                               NoPath, d), <<>>)
        /\ UNCHANGED <<storage, files, now, expiry, storeMode, callers>>

\* the clock advances between calls
Tick ==
  /\ now < MaxTime
  /\ now' = now + 1
  /\ UNCHANGED <<storage, files, expiry, storeMode, last, callers>>

Next == Download \/ HashLookup \/ Tick

Spec == Init /\ [][Next]_vars

\* the callers that pass up to three mirrors and never force a refresh, with a
\* filesystem and a Storage Provider that do not fail
DownloadMirrors == DownloadOf(UrlLists(3), {FALSE}, {"none"})

NextMirrors == DownloadMirrors \/ Tick

SpecMirrors == Init /\ [][NextMirrors]_vars

\* sequential calls over mirrors that serve the same file name, with faults
\* of delete_by_key during eviction
SameNameLists ==
  {s \in UrlLists(3) : \A i \in 1..Len(s) : FileName(s[i]) = "f"}

DownloadSameName == DownloadOf(SameNameLists, {FALSE}, {"none", "delete"})

NextSameName == DownloadSameName \/ Tick

SpecSameName == Init /\ [][NextSameName]_vars

(***************************************************************************)
(* Cache.download run by concurrent callers: the statements of one call    *)
(* interleave with those of the other, nothing in Cache serialises them.   *)
(* One step is one collaborator operation: the lookup with the expiry      *)
(* test, os.remove, delete_by_key, the choice of a destination, the        *)
(* transfer with the hashing, store, and the return.                       *)
(***************************************************************************)
\* the callers ask for the same resource
SharedLists == UrlLists(2)

At(c, pc) == callers[c].pc = pc

Goto(c, upd) == callers' = [callers EXCEPT ![c] = upd]

\* download(urls, redownload) is entered
Begin(c) ==
  /\ callers[c].pc \in {"idle", "done", "raised"}
  /\ \E urls \in SharedLists, redownload \in BOOLEAN :
       Goto(c, [Idle EXCEPT !.urls = urls, !.redownload = redownload, !.i = 1,
                            !.pc = IF UsesCache(redownload) THEN "lookup"
                                   ELSE "fetch"])
  /\ UNCHANGED <<storage, files, now, expiry, storeMode, last>>

\* the loop over _get_by_url and the expiry test
LookupStep(c) ==
  /\ At(c, "lookup")
  /\ LET lk == LookupFrom(storage, callers[c].urls, 1)
     IN  IF Len(lk.details) = 0
         THEN Goto(c, [callers[c] EXCEPT !.pc = "fetch"])
         ELSE IF IsStale(expiry, now, lk.details[1].time)
              THEN Goto(c, [callers[c] EXCEPT !.pc = "remove",
                                              !.details = lk.details])
              ELSE Goto(c, [callers[c] EXCEPT !.pc = "return",
                                              !.path = lk.details[1].file_path])
  /\ UNCHANGED <<storage, files, now, expiry, storeMode, last>>

\* os.remove(details['file_path'])
RemoveStep(c) ==
  /\ At(c, "remove")
  /\ LET d == callers[c].details[1]
     IN  IF d.file_path \in files
         THEN /\ files' = files \ {d.file_path}
              /\ Goto(c, [callers[c] EXCEPT !.pc = "delete"])
         ELSE /\ files' = files
              /\ Goto(c, [Idle EXCEPT !.pc = "raised"])
  /\ UNCHANGED <<storage, now, expiry, storeMode, last>>

\* self._storage.delete_by_key('url', details['url'])
DeleteStep(c) ==
  /\ At(c, "delete")
  /\ storage' = DeleteByKey(storage, "url", callers[c].details[1].url)
  /\ Goto(c, [callers[c] EXCEPT !.pc = "fetch", !.details = <<>>])
  /\ UNCHANGED <<files, now, expiry, storeMode, last>>

\* the destination of the next candidate: get_filename, replacement_filename
StartTransfer(c) ==
  /\ At(c, "fetch")
  /\ LET url == callers[c].urls[callers[c].i]
     IN  Goto(c, [callers[c] EXCEPT
                    !.pc = "transfer",
                    !.path = ReplacementFilename(FileName(url), files)])
  /\ UNCHANGED <<storage, files, now, expiry, storeMode, last>>

\* self._downloader.download(url, path) and hash_file(path)
EndTransfer(c) ==
  /\ At(c, "transfer")
  /\ \E o \in Outcomes :
       LET me == callers[c]
           url == me.urls[me.i]
       IN  /\ files' = IF o = "fetch_fail" THEN files ELSE files \cup {me.path}
           /\ Cardinality(files') <= MaxFiles
           /\ IF o = "ok"
              THEN Goto(c, [me EXCEPT !.url = url,
                                      !.pc = IF StoresEntry(me.redownload)
                                             THEN "store" ELSE "return"])
              ELSE IF me.i = Len(me.urls)
                   THEN Goto(c, [Idle EXCEPT !.pc = "raised"])
                   ELSE Goto(c, [me EXCEPT !.pc = "fetch", !.i = me.i + 1,
                                           !.path = NoPath])
  /\ UNCHANGED <<storage, now, expiry, storeMode, last>>

\* self._storage.store({...})
StoreStep(c) ==
  /\ At(c, "store")
  /\ LET me == callers[c]
         st == Store(storage, NewEntry(HashFile(me.url), me.path, me.url, now),
                     storeMode)
     IN  /\ storage' = st.storage
         /\ IF st.ok
            THEN Goto(c, [me EXCEPT !.pc = "return"])
            ELSE Goto(c, [Idle EXCEPT !.pc = "raised"])
  /\ UNCHANGED <<files, now, expiry, storeMode, last>>

\* return Path(details['file_path']) or return file_path; exists records
\* whether the file is there at that moment
ReturnStep(c) ==
  /\ At(c, "return")
  /\ Goto(c, [Idle EXCEPT !.pc = "done", !.urls = callers[c].urls,
                          !.redownload = callers[c].redownload,
                          !.path = callers[c].path,
                          !.exists = callers[c].path \in files])
  /\ UNCHANGED <<storage, files, now, expiry, storeMode, last>>

NextConcurrent ==
  \/ \E c \in Callers :
        \/ Begin(c)
        \/ LookupStep(c)
        \/ RemoveStep(c)
        \/ DeleteStep(c)
        \/ StartTransfer(c)
        \/ EndTransfer(c)
        \/ StoreStep(c)
        \/ ReturnStep(c)
  \/ Tick

SpecConcurrent == Init /\ [][NextConcurrent]_vars

(***************************************************************************)
(* Vocabulary of the properties, stated on the record of the last call.    *)
(***************************************************************************)
IsDownload == last.op = "download"

Lookup == IsDownload /\ ~last.redownload

Returned == last.result.kind = "path"

Events(kinds) == SelectSeq(last.log, LAMBDA e : e.ev \in kinds)

Fetches == Events({"fetch"})

\* the entries the call started from whose url is a candidate of the call
Candidates == {k \in 1..Len(last.storage0) : last.storage0[k].url \in Range(last.urls)}

\* an entry is within the expiry window at the time of the call
Fresh(e) == expiry = <<>> \/ last.at - e.time <= expiry[1]

\* the position in the list of the first candidate URL that has an entry
MatchPos ==
  Min({i \in 1..Len(last.urls) :
         \E k \in Candidates : last.storage0[k].url = last.urls[i]})

\* the entry the call matched: the oldest record of that URL
Matched ==
  last.storage0[Min({k \in Candidates :
                       last.storage0[k].url = last.urls[MatchPos]})]

Hit == Lookup /\ Candidates # {}

Unchanged == storage = last.storage0 /\ files = last.files0

(***************************************************************************)
(* C1. Fresh hit, as stated: a non-redownload download(urls) for which     *)
(* the storage holds a non-expired entry of some URL of the list returns   *)
(* the path of such an entry, never invokes the Downloader and leaves      *)
(* storage and files unchanged.                                            *)
(***************************************************************************)
C1_AnyFreshEntryIsReturned ==
  (Lookup /\ \E k \in Candidates : Fresh(last.storage0[k]))
    => /\ Returned
       /\ \E k \in Candidates : /\ Fresh(last.storage0[k])
                                /\ last.result.path = last.storage0[k].file_path
       /\ Fetches = <<>>
       /\ Unchanged

(***************************************************************************)
(* C1, amended: a non-redownload download(urls) for which the first URL of *)
(* the list, in list order, that has an entry has a non-expired one        *)
(* returns that entry's file_path, never invokes the Downloader and leaves *)
(* storage and files unchanged.                                            *)
(***************************************************************************)
C1_FreshHit ==
  (Hit /\ Fresh(Matched))
    => /\ Returned
       /\ last.result.path = Matched.file_path
       /\ Fetches = <<>>
       /\ Unchanged

\* a hit on the second URL of the list, on an entry as old as the expiry
C1_Witness ==
  /\ Hit /\ Fresh(Matched) /\ MatchPos = 2
  /\ expiry # <<>> /\ last.at - Matched.time = expiry[1]
  /\ Returned

(***************************************************************************)
(* C2. Stale hit.                                                          *)
(***************************************************************************)
StaleHit == Hit /\ ~Fresh(Matched)

\* the position in the log of the removal of the matched entry's file
RemovePos ==
  Min({i \in 1..Len(last.log) : last.log[i].ev = "remove"} \cup {Len(last.log) + 1})

\* the old file is deleted, then the old entry, only then candidates are
\* fetched, and the last two steps are the successful fetch and the store
EvictThenDownloadThenStore ==
  LET n == Len(last.log)
      i == RemovePos
  IN  /\ i + 3 <= n
      /\ \A j \in 1..(i - 1) : last.log[j].ev = "find"
      /\ last.log[i] = Ev("remove", Matched.url, Matched.file_path, "ok")
      /\ last.log[i + 1] = Ev("delete", Matched.url, Matched.file_path, "ok")
      /\ \A j \in (i + 2)..(n - 1) : last.log[j].ev = "fetch"
      /\ last.log[n - 1].res = "ok"
      /\ last.log[n - 1].path = last.result.path
      /\ last.log[n] = Ev("store", last.log[n - 1].url, last.result.path, "ok")
      /\ \E k \in 1..Len(storage) :
            /\ storage[k].file_path = last.result.path
            /\ storage[k].url = last.log[n - 1].url
            /\ storage[k].time = last.at

OldEntryGone == \A k \in 1..Len(storage) : storage[k] # Matched

(***************************************************************************)
(* C2, as stated: a non-redownload download(urls) whose matched entry is   *)
(* expired first deletes the old file and then the old entry, only         *)
(* afterwards downloads, stores a new entry and returns a path different   *)
(* from the old one; when it returns, the old path no longer exists and    *)
(* the old entry is no longer in storage.                                  *)
(***************************************************************************)
C2_NewPathAndOldPathGone ==
  (StaleHit /\ Returned)
    => /\ EvictThenDownloadThenStore
       /\ last.result.path # Matched.file_path
       /\ Matched.file_path \notin files
       /\ OldEntryGone

(***************************************************************************)
(* C2, amended: a non-redownload download(urls) whose matched entry is     *)
(* expired and that returns has first deleted the old file and then the    *)
(* old entry, only afterwards downloaded, stored a new entry and returned  *)
(* the path of the fresh download, which is in the cache directory and may *)
(* be the old path again; the old entry is no longer in storage, and the   *)
(* old path exists only if a download attempt of this call wrote it.       *)
(***************************************************************************)
C2_StaleHit ==
  (StaleHit /\ Returned)
    => /\ EvictThenDownloadThenStore
       /\ last.result.path \in files
       /\ OldEntryGone
       /\ Matched.file_path \in files
            => \E j \in 1..Len(Fetches) :
                  /\ Fetches[j].path = Matched.file_path
                  /\ Fetches[j].res \in {"ok", "hash_fail"}

\* a stale entry evicted, the first candidate failing and the second one
\* downloaded to a path that is not the old one
C2_Witness ==
  /\ StaleHit /\ Returned
  /\ Len(Fetches) = 2
  /\ last.result.path # Matched.file_path
  /\ Matched.file_path \notin files

(***************************************************************************)
(* C3. No-expiry mode: with expiry None, a non-redownload download(urls)   *)
(* that matches an entry returns that entry's path whatever the entry's    *)
(* time, evicts nothing and does not invoke the Downloader.                *)
(***************************************************************************)
C3_NoExpiry ==
  (expiry = <<>> /\ IsDownload)
    => /\ Events({"remove", "delete"}) = <<>>
       /\ Hit => /\ Returned
                 /\ last.result.path = Matched.file_path
                 /\ Fetches = <<>>
                 /\ Unchanged

\* a hit on an entry two ticks old, older than any configured expiry
C3_Witness ==
  /\ expiry = <<>> /\ Hit /\ Returned
  /\ last.at - Matched.time >= 2
  /\ \A e \in Expiries : e # <<>> => last.at - Matched.time > e[1]

(***************************************************************************)
(* C4. Mirror fallback: a non-redownload download(urls) on a cache miss    *)
(* where some candidate succeeds returns the file downloaded from the      *)
(* first URL in list order that succeeds, and the entry it persists has    *)
(* that URL (never an earlier, failed one) and the returned path.          *)
(***************************************************************************)
Miss == Lookup /\ Candidates = {}

SomeFetchOk == \E j \in 1..Len(Fetches) : Fetches[j].res = "ok"

C4_MirrorFallback ==
  (Miss /\ SomeFetchOk)
    => LET n == Len(Fetches)
       IN  /\ \A j \in 1..n : Fetches[j].url = last.urls[j]
           /\ \A j \in 1..(n - 1) : Fetches[j].res # "ok"
           /\ Fetches[n].res = "ok"
           /\ Returned
           /\ last.result.path = Fetches[n].path
           /\ last.result.path \in files
           /\ storage = Append(last.storage0,
                               [url |-> last.urls[n],
                                file_path |-> last.result.path,
                                file_hash |-> storage[Len(storage)].file_hash,
                                time |-> last.at])

\* candidates [A, B, C]: A and B fail, C succeeds
C4_Witness ==
  /\ Miss /\ Returned
  /\ Len(last.urls) = 3 /\ Len(Fetches) = 3
  /\ storage[Len(storage)].url = last.urls[3]

(***************************************************************************)
(* C5. All mirrors fail: a download(urls) in which every URL of the list   *)
(* was tried and failed ends with the exhausted-mirrors fault, returns no  *)
(* path and never calls store, so it writes no entry.                      *)
(***************************************************************************)
AllFetchesFail ==
  /\ IsDownload
  /\ Len(Fetches) = Len(last.urls)
  /\ \A j \in 1..Len(Fetches) : Fetches[j].res # "ok"

C5_AllMirrorsFail ==
  AllFetchesFail
    => /\ last.result.kind = "exhausted"
       /\ last.result.path = NoPath
       /\ Events({"store"}) = <<>>
       /\ \A k \in 1..Len(storage) :
             \E k0 \in 1..Len(last.storage0) : storage[k] = last.storage0[k0]

\* two mirrors fail in a non-redownload call that found other entries stored
C5_Witness ==
  /\ AllFetchesFail /\ ~last.redownload
  /\ Len(last.urls) = 2
  /\ last.result.kind = "exhausted"
  /\ storage # <<>>

(***************************************************************************)
(* C6. When every URL of the list fails, no file created by the call is    *)
(* left in the cache directory, whatever step of a candidate's attempt     *)
(* failed (name resolution, the transfer, or hashing the downloaded file). *)
(***************************************************************************)
C6_NoFileLeftBehind ==
  (IsDownload /\ last.result.kind = "exhausted") => files \subseteq last.files0

(***************************************************************************)
(* C7. Redownload bypass: download(urls, redownload=True) always attempts  *)
(* a network fetch, also when an unexpired entry exists for a URL of the   *)
(* list, and performs no Storage Provider operation, so the entries are    *)
(* the same before and after the call.                                     *)
(***************************************************************************)
C7_RedownloadBypass ==
  (IsDownload /\ last.redownload)
    => /\ Len(Fetches) >= 1
       /\ Fetches[1].url = last.urls[1]
       /\ Events({"find", "remove", "delete", "store"}) = <<>>
       /\ storage = last.storage0

\* a forced refresh that succeeds while the first URL has an unexpired entry
C7_Witness ==
  /\ IsDownload /\ last.redownload /\ Returned
  /\ Candidates # {}
  /\ MatchPos = 1 /\ Fresh(Matched)
  /\ last.result.path # Matched.file_path

(***************************************************************************)
(* C8. Hash lookup independence: get_by_hash(h) returns the storage entry  *)
(* whose file_hash is h whatever the entry's age, returns absence when no  *)
(* entry has that hash, changes neither storage nor files and never        *)
(* invokes the Downloader.                                                 *)
(***************************************************************************)
IsHashLookup == last.op = "get_by_hash"

WithHash == {k \in 1..Len(last.storage0) : last.storage0[k].file_hash = last.hash}

C8_HashLookup ==
  IsHashLookup
    => /\ WithHash # {}
            => /\ last.result.kind = "entry"
               /\ \E k \in WithHash : last.result.entry = <<last.storage0[k]>>
       /\ WithHash = {}
            => /\ last.result.kind = "none"
               /\ last.result.entry = <<>>
       /\ last.log = <<>>
       /\ Unchanged

\* the entry returned is older than the expiry
C8_Witness ==
  /\ IsHashLookup /\ last.result.kind = "entry"
  /\ expiry # <<>>
  /\ last.at - last.result.entry[1].time > expiry[1]

(***************************************************************************)
(* C9. Idempotence: of two sequential non-redownload calls download(urls)  *)
(* with the same list, the first returning a path that is still within the *)
(* expiry window at the second, the second returns the identical path and  *)
(* performs no transfer.                                                   *)
(***************************************************************************)
SecondCallOfSameList ==
  /\ Lookup /\ Returned
  /\ now' = now
  /\ last'.op = "download" /\ ~last'.redownload
  /\ last'.urls = last.urls
  /\ \E k \in 1..Len(storage) :
        /\ storage[k].file_path = last.result.path
        /\ storage[k].url \in Range(last.urls)
        /\ (expiry = <<>> \/ now - storage[k].time <= expiry[1])

C9_Idempotent ==
  [][SecondCallOfSameList
       => /\ last'.result = last.result
          /\ \A j \in 1..Len(last'.log) : last'.log[j].ev # "fetch"]_vars

C11_EntryAndFileCoupled ==
  /\ \A k \in 1..Len(storage) : storage[k].file_path \in files
  /\ \A f \in files : \E k \in 1..Len(storage) : storage[k].file_path = f

\* C12: a path that download returns names a file that exists at the moment
\* of the return, also when another caller evicts the entry meanwhile
C12_ReturnedPathExists ==
  \A c \in Callers : At(c, "done") => callers[c].exists

\* C13: callers that ask for the same URL list without redownload are
\* serialised: no two of them have a transfer in flight at the same time
C13_SerializedPerKey ==
  \A c, d \in Callers :
    /\ c # d
    /\ callers[c].urls = callers[d].urls
    /\ ~callers[c].redownload /\ ~callers[d].redownload
    => ~(At(c, "transfer") /\ At(d, "transfer"))

(***************************************************************************)
(* C14. Lookup order.                                                      *)
(***************************************************************************)
Finds == Events({"find"})

\* C14: the lookup of a non-redownload download(urls) queries the
\* candidates in list order by exact URL and stops at the first URL that
\* has an entry, after scanning the whole list if none has; entries of
\* later URLs are not consulted, so a stale first match is evicted and
\* fetched again even when a later URL of the list has a fresh entry
C14_LookupOrder ==
  Lookup =>
    LET n == Len(Finds)
    IN  /\ \A j \in 1..n : /\ Finds[j] = last.log[j]
                           /\ Finds[j].url = last.urls[j]
        /\ IF Candidates = {}
           THEN /\ n = Len(last.urls)
                /\ \A j \in 1..n : Finds[j].res = "miss"
           ELSE /\ n = MatchPos
                /\ \A j \in 1..(n - 1) : Finds[j].res = "miss"
                /\ Finds[n] = Ev("find", Matched.url, Matched.file_path, "hit")
        /\ StaleHit =>
             /\ Events({"remove"}) # <<>>
             /\ Events({"remove"})[1].url = Matched.url
             /\ last.result.kind \notin {"remove_fault", "delete_fault"}
                  => Fetches # <<>>
             /\ Returned => /\ Fetches # <<>>
                            /\ last.result.path = Fetches[Len(Fetches)].path

\* the first URL of the list has a stale entry, a later URL a fresh one: the
\* stale one is evicted and the resource is fetched again
C14_Witness ==
  /\ StaleHit /\ MatchPos = 1 /\ Returned
  /\ \E k \in Candidates : /\ Fresh(last.storage0[k])
                           /\ last.storage0[k].url # last.urls[1]
  /\ Events({"remove"}) # <<>>
  /\ Fetches # <<>>

(***************************************************************************)
(* C15. Order of the download attempts.                                    *)
(***************************************************************************)
\* C15: within one download call the candidates are attempted strictly in
\* list order, each at most once; a candidate's fault is absorbed and the
\* next candidate is tried; no URL after the first success is attempted
C15_AttemptOrder ==
  IsDownload =>
    LET n == Len(Fetches)
    IN  /\ n <= Len(last.urls)
        /\ \A j \in 1..n : Fetches[j].url = last.urls[j]
        /\ \A j, k \in 1..n : Fetches[j].url = Fetches[k].url => j = k
        /\ \A j \in 1..(n - 1) : Fetches[j].res # "ok"
        /\ (n > 0 /\ Fetches[n].res # "ok")
             => n = Len(last.urls) /\ last.result.kind = "exhausted"

\* candidates [A, B, C]: A fails, B succeeds, C is never tried
C15_Witness ==
  /\ IsDownload /\ Returned
  /\ Len(last.urls) = 3 /\ Len(Fetches) = 2
  /\ Fetches[1].res # "ok" /\ Fetches[2].res = "ok"

(***************************************************************************)
(* C16. Eviction fault.                                                    *)
(***************************************************************************)
\* os.remove or delete_by_key raised during the eviction of the call
EvictionFault ==
  /\ Lookup
  /\ \E j \in 1..Len(last.log) : /\ last.log[j].ev \in {"remove", "delete"}
                                 /\ last.log[j].res = "fault"

\* C16: when during the expiry eviction the file deletion fails, or the
\* file deletion succeeds and the entry deletion fails, the download call
\* ends with that fault, returns no path, fetches nothing and stores nothing
C16_EvictionFault ==
  EvictionFault =>
    /\ StaleHit
    /\ last.result.kind \in {"remove_fault", "delete_fault"}
    /\ last.result.path = NoPath
    /\ Fetches = <<>>
    /\ Events({"store"}) = <<>>
    /\ storage = last.storage0
    /\ last.result.kind = "remove_fault"
         => /\ files = last.files0
            /\ last.log[Len(last.log)]
                 = Ev("remove", Matched.url, Matched.file_path, "fault")
            /\ Events({"delete"}) = <<>>
    /\ last.result.kind = "delete_fault"
         => /\ files = last.files0 \ {Matched.file_path}
            /\ last.log[Len(last.log) - 1]
                 = Ev("remove", Matched.url, Matched.file_path, "ok")
            /\ last.log[Len(last.log)]
                 = Ev("delete", Matched.url, Matched.file_path, "fault")

\* the file of a stale entry was deleted and the deletion of the entry failed
C16_Witness ==
  /\ EvictionFault
  /\ last.result.kind = "delete_fault"
  /\ Matched.file_path \in last.files0
  /\ Matched.file_path \notin files
  /\ \E k \in 1..Len(storage) : storage[k] = Matched

(***************************************************************************)
(* C17. Strict staleness test.                                             *)
(***************************************************************************)
\* C17: with an expiry configured, the matched entry is evicted exactly
\* when now - entry.time > expiry; an entry whose age equals the expiry is
\* a hit: its path is returned and nothing is fetched
C17_StrictStaleness ==
  (Hit /\ expiry # <<>>) =>
    /\ (Events({"remove"}) # <<>>) <=> (last.at - Matched.time > expiry[1])
    /\ (last.at - Matched.time <= expiry[1])
         => /\ Returned
            /\ last.result.path = Matched.file_path
            /\ Events({"remove", "delete", "fetch", "store"}) = <<>>
            /\ Unchanged

\* an entry exactly as old as the expiry is returned
C17_Witness ==
  /\ Hit /\ expiry # <<>> /\ MatchPos = 1
  /\ last.at - Matched.time = expiry[1]
  /\ Returned /\ last.result.path = Matched.file_path

(***************************************************************************)
(* C18. Eviction is not undone by a failed replacement.                    *)
(***************************************************************************)
\* C18: a non-redownload download(urls) that matches a stale entry and then
\* fails on every URL has deleted the old file and the old entry before the
\* first attempt and ends with the exhausted-mirrors fault; afterwards the
\* storage is the storage before the call without the old entry (no new
\* entry), and nothing is at the old path but what a failed attempt of
\* this call left there
C18_EvictionNotUndone ==
  (StaleHit /\ AllFetchesFail) =>
    LET i == RemovePos
    IN  /\ last.result.kind = "exhausted"
        /\ last.log[i] = Ev("remove", Matched.url, Matched.file_path, "ok")
        /\ last.log[i + 1] = Ev("delete", Matched.url, Matched.file_path, "ok")
        /\ \A j \in 1..(i + 1) : last.log[j].ev # "fetch"
        /\ OldEntryGone
        /\ storage = DeleteByKey(last.storage0, "url", Matched.url)
        /\ storage # last.storage0
        /\ Matched.file_path \in last.files0
        /\ Matched.file_path \in files
             => \E j \in 1..Len(Fetches) : /\ Fetches[j].path = Matched.file_path
                                           /\ Fetches[j].res = "hash_fail"

\* the stale entry and its file are gone after a call that raised
C18_Witness ==
  /\ StaleHit /\ AllFetchesFail
  /\ last.result.kind = "exhausted"
  /\ Len(storage) < Len(last.storage0)
  /\ Matched.file_path \notin files

(***************************************************************************)
(* C20. A stale entry whose file is missing.                               *)
(***************************************************************************)
\* an entry of the storage that is stale and whose file is not there
Orphan(e) ==
  /\ e \in Range(storage)
  /\ e.file_path \notin files
  /\ IsStale(expiry, now, e.time)

\* C20, as stated: once a stale entry's file is missing while the entry is
\* in storage, no non-redownload download call removes the entry or caches
\* the resource again
C20_OrphanNeverRecached ==
  [][\A e \in Range(storage) :
       (/\ Orphan(e)
        /\ now' = now
        /\ last'.op = "download" /\ ~last'.redownload)
         => e \in Range(storage') /\ e.file_path \notin files']_vars

\* C20, amended: a non-redownload download call whose lookup matches a
\* stale entry whose file is missing fails at the file removal: it deletes
\* no entry, fetches nothing, stores nothing and leaves storage and files
\* as they were
C20_OrphanMatchFails ==
  (StaleHit /\ Matched.file_path \notin last.files0) =>
    /\ last.result.kind = "remove_fault"
    /\ last.result.path = NoPath
    /\ last.log[Len(last.log)]
         = Ev("remove", Matched.url, Matched.file_path, "fault")
    /\ Events({"delete", "fetch", "store"}) = <<>>
    /\ Unchanged

\* a call matched the entry that an earlier eviction left without its file
C20_Witness ==
  /\ StaleHit
  /\ Matched.file_path \notin last.files0
  /\ last.result.kind = "remove_fault"
  /\ \E k \in 1..Len(storage) : storage[k] = Matched

(***************************************************************************)
(* C19. Entries and their file paths.                                      *)
(***************************************************************************)
\* C19: after any sequence of download calls no two entries of the storage
\* have the same file_path, so that evicting one entry never removes the
\* file that backs another
C19_NoSharedFilePath ==
  \A i, j \in 1..Len(storage) :
    storage[i].file_path = storage[j].file_path => i = j

====
